---------------------------- MODULE Spec2Model ----------------------------
(***************************************************************************)
(* A model of src/app/main.py: the pattern compiler (parse_pattern), the   *)
(* backtracking matcher (match_from) and the driver (match_pattern).       *)
(*                                                                         *)
(* Strings are sequences of one-character strings.  Positions are 0-based  *)
(* as in the source; s[i] of the source is CharAt(s, i) here.              *)
(*                                                                         *)
(* A token of the source is the tuple (ttype, val, quant), where val is a  *)
(* character, a pair (set, negated), a list of alternatives or None,       *)
(* depending on ttype.  Here a token is a record with one field per shape  *)
(* of val: ch, chars and negative, alts; the fields a ttype does not use   *)
(* hold "", {}, FALSE, <<>>.  quant None is "".                            *)
(***************************************************************************)
EXTENDS Integers, Sequences, FiniteSets, TLC

VARIABLES
    arg_pattern,    \* match_pattern's argument pattern, as passed
    input_line,     \* match_pattern's argument input_line
    pc,             \* the position in match_pattern
    pattern,        \* the local pattern, rebound by the anchor stripping
    anchor_start,   \* main.py:202
    anchor_end,     \* main.py:205
    tokens,         \* main.py:209
    raised,         \* the RuntimeError parse_pattern raised, "" when none
    lines,          \* main.py:218
    k,              \* the index into lines of the loop at main.py:242
    result          \* the value returned: "True", "False", "none" before

vars == <<arg_pattern, input_line, pc, pattern, anchor_start, anchor_end,
          tokens, raised, lines, k, result>>

-----------------------------------------------------------------------------
(* Bounds of the model. *)

MaxPat == 3
MaxLen == 3
MaxParsePat == 4
MaxLitPat == 3
MaxLitLen == 4
MaxQPat == 4
MaxQLen == 3

-----------------------------------------------------------------------------
(* Strings. *)

Strs(A, n) == UNION {[1..m -> A] : m \in 0..n}

\* s[i]; a read outside the string, an IndexError in the source, gives a
\* value that is no character
CharAt(s, i) == IF i + 1 \in DOMAIN s THEN s[i + 1] ELSE "IndexError"

\* s[a:b]
Slice(s, a, b) == IF b <= a THEN <<>> ELSE SubSeq(s, a + 1, b)

Digits == {"0", "1", "2", "3", "4", "5", "6", "7", "8", "9"}

Letters == {"a", "b", "c", "d", "e", "f", "g", "h", "i", "j", "k", "l", "m",
            "n", "o", "p", "q", "r", "s", "t", "u", "v", "w", "x", "y", "z"}

\* str.isdigit and str.isalnum on the characters of the model
isdigit(ch) == ch \in Digits

isalnum(ch) == ch \in Letters \cup Digits

startswith(s, c) == Len(s) > 0 /\ s[1] = c

endswith(s, c) == Len(s) > 0 /\ s[Len(s)] = c

\* pattern.find(c, from): the least index >= from holding c, -1 when none
find(s, c, from) ==
    LET hits == {j \in from..(Len(s) - 1) : s[j + 1] = c}
    IN  IF hits = {} THEN -1
        ELSE CHOOSE j \in hits : \A h \in hits : j <= h

\* The characters at which str.splitlines breaks, among those of the model.
LineBreaks == {"\n", "\r"}

\* str.splitlines: a break ends a line, "\r\n" is one break, and no empty
\* line follows the last break.
RECURSIVE splitlines_from(_, _, _)
splitlines_from(s, i, cur) ==
    IF i >= Len(s) THEN (IF cur = <<>> THEN <<>> ELSE <<cur>>)
    ELSE IF s[i + 1] = "\r" /\ CharAt(s, i + 1) = "\n"
         THEN <<cur>> \o splitlines_from(s, i + 2, <<>>)
    ELSE IF s[i + 1] \in LineBreaks
         THEN <<cur>> \o splitlines_from(s, i + 1, <<>>)
    ELSE splitlines_from(s, i + 1, Append(cur, s[i + 1]))

splitlines(s) == splitlines_from(s, 0, <<>>)

-----------------------------------------------------------------------------
(* Tokens. *)

Token(ttype, ch, chars, negative, alts, quant) ==
    [ttype |-> ttype, ch |-> ch, chars |-> chars, negative |-> negative,
     alts |-> alts, quant |-> quant]

Literal(c) == Token("literal", c, {}, FALSE, <<>>, "")
DigitTok == Token("digit", "", {}, FALSE, <<>>, "")
WordTok == Token("word", "", {}, FALSE, <<>>, "")
ClassTok(content, neg) ==
    Token("class", "", {content[j] : j \in DOMAIN content}, neg, <<>>, "")
DotTok == Token("dot", "", {}, FALSE, <<>>, "")
GroupTok(alternatives) == Token("group", "", {}, FALSE, alternatives, "")

-----------------------------------------------------------------------------
(* parse_pattern *)

Ok(alts, idx) == [err |-> "", alts |-> alts, idx |-> idx]
Raise(msg) == [err |-> msg, alts |-> <<>>, idx |-> 0]

UnterminatedClass == "Unterminated character class"
UnterminatedGroup == "Unterminated group, expected ')'"

\* main.py:33-45: the atom that starts with a backslash at i
ParseEscape(p, i) ==
    IF i + 1 < Len(p)
    THEN LET esc == CharAt(p, i + 1)
         IN  [err |-> "", idx |-> i + 2,
              token |-> IF esc = "d" THEN DigitTok
                        ELSE IF esc = "w" THEN WordTok
                        ELSE Literal(esc)]
    ELSE [err |-> "", idx |-> i + 1, token |-> Literal(CharAt(p, i))]

\* main.py:46-55: the atom that starts with "[" at i
ParseClass(p, i) ==
    LET close == find(p, "]", i + 1)
        content == Slice(p, i + 1, close)
    IN  IF close = -1
        THEN [err |-> UnterminatedClass, idx |-> 0, token |-> DotTok]
        ELSE [err |-> "", idx |-> close + 1,
              token |-> IF startswith(content, "^")
                        THEN ClassTok(Slice(content, 1, Len(content)), TRUE)
                        ELSE ClassTok(content, FALSE)]

\* ParseQuantifier that takes a second quantifier character too: the last
\* one read is the token's quantifier
ParseQuantifierStacked(p, i, token) ==
    IF i + 1 < Len(p) /\ CharAt(p, i) \in {"+", "?"}
                      /\ CharAt(p, i + 1) \in {"+", "?"}
    THEN [token |-> [token EXCEPT !.quant = CharAt(p, i + 1)], idx |-> i + 2]
    ELSE IF i < Len(p) /\ CharAt(p, i) \in {"+", "?"}
    THEN [token |-> [token EXCEPT !.quant = CharAt(p, i)], idx |-> i + 1]
    ELSE [token |-> token, idx |-> i]

\* main.py:69-72: the quantifier that follows an atom ending before i
ParseQuantifier(p, i, token) ==
    IF i < Len(p) /\ CharAt(p, i) \in {"+", "?"}
    THEN [token |-> [token EXCEPT !.quant = CharAt(p, i)], idx |-> i + 1]
    ELSE [token |-> token, idx |-> i]

\* ParseEnd that closes the open group at the end of the pattern
ParseEndLenient(end_char, alts, seq, i) == Ok(Append(alts, seq), i)

\* main.py:76-81: the end of the pattern is reached
ParseEnd(end_char, alts, seq, i) ==
    IF end_char = ""
    THEN Ok(Append(alts, seq), i)
    ELSE Raise(UnterminatedGroup)

\* main.py:17-81, end_char None is ""; alts and seq are the loop's locals
RECURSIVE parse_alternatives(_, _, _, _, _)
parse_alternatives(p, i, end_char, alts, seq) ==
    IF i >= Len(p) THEN ParseEnd(end_char, alts, seq, i)
    ELSE
    LET c == CharAt(p, i) IN
    IF end_char # "" /\ c = end_char THEN Ok(Append(alts, seq), i + 1)
    ELSE IF c = "|"
    THEN parse_alternatives(p, i + 1, end_char, Append(alts, seq), <<>>)
    ELSE
    LET atom ==
            IF c = "\\" THEN ParseEscape(p, i)
            ELSE IF c = "[" THEN ParseClass(p, i)
            ELSE IF c = "." THEN [err |-> "", idx |-> i + 1, token |-> DotTok]
            ELSE IF c = "("
            THEN LET inner == parse_alternatives(p, i + 1, ")", <<>>, <<>>)
                 IN  [err |-> inner.err, idx |-> inner.idx,
                      token |-> GroupTok(inner.alts)]
            ELSE [err |-> "", idx |-> i + 1, token |-> Literal(c)]
    IN  IF atom.err # "" THEN Raise(atom.err)
        ELSE LET q == ParseQuantifier(p, atom.idx, atom.token)
             IN  parse_alternatives(p, q.idx, end_char, alts,
                                    Append(seq, q.token))

\* main.py:14-88: [err, tokens]
parse_pattern(p) ==
    LET r == parse_alternatives(p, 0, "", <<>>, <<>>)
    IN  IF r.err # "" THEN [err |-> r.err, tokens |-> <<>>]
        ELSE IF Len(r.alts) = 1 THEN [err |-> "", tokens |-> r.alts[1]]
        ELSE [err |-> "", tokens |-> <<GroupTok(r.alts)>>]

-----------------------------------------------------------------------------
(* token_matches_char and match_from *)

\* token_matches_char with a literal that matches every character
token_matches_char_loose(token, ch) ==
    IF token.ttype = "literal" THEN TRUE
    ELSE IF token.ttype = "digit" THEN isdigit(ch)
    ELSE IF token.ttype = "word" THEN isalnum(ch) \/ ch = "_"
    ELSE IF token.ttype = "class"
         THEN IF token.negative THEN ch \notin token.chars
              ELSE ch \in token.chars
    ELSE IF token.ttype = "dot" THEN ch # "\n"
    ELSE FALSE

\* main.py:91-107
token_matches_char(token, ch) ==
    IF token.ttype = "literal" THEN ch = token.ch
    ELSE IF token.ttype = "digit" THEN isdigit(ch)
    ELSE IF token.ttype = "word" THEN isalnum(ch) \/ ch = "_"
    ELSE IF token.ttype = "class"
         THEN IF token.negative THEN ch \notin token.chars
              ELSE ch \in token.chars
    ELSE IF token.ttype = "dot" THEN ch # "\n"
    ELSE FALSE

\* Holds without the test against the length of the line
HoldsUnguarded(token, line, pos) ==
    token_matches_char(token, CharAt(line, pos))

\* main.py:125, 131, 145: pos < n and token_matches_char(tokens[i], line[pos])
Holds(token, line, pos) ==
    pos < Len(line) /\ token_matches_char(token, CharAt(line, pos))

\* main.py:133-134: the p at which the while loop stops
RECURSIVE RunEnd(_, _, _)
RunEnd(token, line, p) ==
    IF p < Len(line) /\ token_matches_char(token, CharAt(line, p))
    THEN RunEnd(token, line, p + 1)
    ELSE p

\* RunLengths of a matcher that takes the longest run only
RunLengthsGreedy(max_k) == {max_k}

\* main.py:136: range(max_k, 0, -1), as the set of its values
RunLengths(max_k) == 1..max_k

\* The frontier loop of main.py:182 is cut off after RoundCap(line) rounds;
\* C9ClosureEnds below states that the cut never happens.
RoundCap(line) == Len(line) + 2

RECURSIVE match_from(_, _, _, _)

\* main.py:119-120
match_sequence(seq_tokens, start_pos, line) ==
    match_from(seq_tokens, 0, start_pos, line)

\* main.py:154-155, 164-165, 174-175, 185-186: the ends of one occurrence of
\* the group at p, over its alternatives
OneOccurrence(alternatives, p, line) ==
    UNION {match_sequence(alternatives[a], p, line) : a \in DOMAIN alternatives}

\* NewFrontier of a closure that stops after the first occurrence
NewFrontierNone(alternatives, frontier, visited, line) == {}

\* NewFrontier without the test against visited
NewFrontierRevisit(alternatives, frontier, visited, line) ==
    UNION {OneOccurrence(alternatives, p, line) : p \in frontier}

\* main.py:183-191: new_frontier after the for loops over frontier
NewFrontier(alternatives, frontier, visited, line) ==
    {e \in UNION {OneOccurrence(alternatives, p, line) : p \in frontier} :
        e \notin visited}

\* main.py:182-192: the while loop, with the number of rounds it ran
RECURSIVE closure_loop(_, _, _, _, _, _)
closure_loop(alternatives, frontier, visited, reachable, rounds, line) ==
    IF frontier = {} \/ rounds >= RoundCap(line)
    THEN [reachable |-> reachable, rounds |-> rounds, frontier |-> frontier]
    ELSE LET new_frontier == NewFrontier(alternatives, frontier, visited, line)
         IN  closure_loop(alternatives, new_frontier,
                          visited \cup new_frontier,
                          reachable \cup new_frontier, rounds + 1, line)

\* main.py:173-192: first_positions and the closure started from them
Closure(alternatives, pos, line) ==
    LET first_positions == OneOccurrence(alternatives, pos, line)
    IN  closure_loop(alternatives, first_positions, first_positions,
                     first_positions, 0, line)

\* main.py:111-198
match_from(toks, i, pos, line) ==
    IF i = Len(toks) THEN {pos}
    ELSE
    LET tok == toks[i + 1]
        quant == tok.quant
    IN
    IF tok.ttype # "group"
    THEN IF quant = ""
         THEN IF Holds(tok, line, pos)
              THEN match_from(toks, i + 1, pos + 1, line)
              ELSE {}
         ELSE IF quant = "+"
         THEN IF ~Holds(tok, line, pos) THEN {}
              ELSE LET max_k == RunEnd(tok, line, pos) - pos
                   IN  UNION {match_from(toks, i + 1, pos + n, line) :
                                 n \in RunLengths(max_k)}
         ELSE \* quant = "?"
              match_from(toks, i + 1, pos, line)
              \cup (IF Holds(tok, line, pos)
                    THEN match_from(toks, i + 1, pos + 1, line)
                    ELSE {})
    ELSE IF quant = ""
         THEN UNION {match_from(toks, i + 1, end, line) :
                        end \in OneOccurrence(tok.alts, pos, line)}
         ELSE IF quant = "?"
         THEN match_from(toks, i + 1, pos, line)
              \cup UNION {match_from(toks, i + 1, end, line) :
                             end \in OneOccurrence(tok.alts, pos, line)}
         ELSE \* quant = "+"
              IF OneOccurrence(tok.alts, pos, line) = {} THEN {}
              ELSE UNION {match_from(toks, i + 1, next_pos, line) :
                             next_pos \in Closure(tok.alts, pos, line).reachable}

-----------------------------------------------------------------------------
(* match_pattern *)

\* match_in_line with the end anchor's scan stopping before start = n
match_in_line_short(toks, a_start, a_end, line) ==
    LET n == Len(line) IN
    IF a_start /\ a_end THEN n \in match_from(toks, 0, 0, line)
    ELSE IF a_start THEN match_from(toks, 0, 0, line) # {}
    ELSE IF a_end
         THEN \E start \in 0..(n - 1) : n \in match_from(toks, 0, start, line)
    ELSE \E start \in 0..(n - 1) : match_from(toks, 0, start, line) # {}

\* main.py:222-240
match_in_line(toks, a_start, a_end, line) ==
    LET n == Len(line) IN
    IF a_start /\ a_end THEN n \in match_from(toks, 0, 0, line)
    ELSE IF a_start THEN match_from(toks, 0, 0, line) # {}
    ELSE IF a_end
         THEN \E start \in 0..n : n \in match_from(toks, 0, start, line)
    ELSE \E start \in 0..n : match_from(toks, 0, start, line) # {}

\* FullInputScan without the scan: the lines alone decide
FullInputScanSkipped(toks, a_start, a_end, full) == FALSE

\* main.py:246-253: the scan of the whole input after no line matched
FullInputScan(toks, a_start, a_end, full) ==
    ~a_start /\ ~a_end
    /\ \E start \in 0..Len(full) : match_from(toks, 0, start, full) # {}

\* EmptyPatternResult with the anchors ignored
EmptyPatternResultAlways(a_start, a_end, full) == TRUE

\* main.py:213-216
EmptyPatternResult(a_start, a_end, full) ==
    IF a_start \/ a_end
    THEN (\E j \in DOMAIN splitlines(full) : splitlines(full)[j] = <<>>)
         \/ (full = <<>> /\ (a_start \/ a_end))
    ELSE TRUE

\* main.py:218-220
InputLines(full) ==
    IF Len(splitlines(full)) = 0 /\ full = <<>> THEN <<(<<>>)>>
    ELSE splitlines(full)

Bool(b) == IF b THEN "True" ELSE "False"

\* main.py:202-204
StripStart ==
    /\ pc = "start"
    /\ anchor_start' = startswith(pattern, "^")
    /\ pattern' = IF startswith(pattern, "^")
                  THEN Slice(pattern, 1, Len(pattern)) ELSE pattern
    /\ pc' = "strip_end"
    /\ UNCHANGED <<arg_pattern, input_line, anchor_end, tokens, raised,
                   lines, k, result>>

\* main.py:205-207
StripEnd ==
    /\ pc = "strip_end"
    /\ anchor_end' = endswith(pattern, "$")
    /\ pattern' = IF endswith(pattern, "$")
                  THEN Slice(pattern, 0, Len(pattern) - 1) ELSE pattern
    /\ pc' = "parse"
    /\ UNCHANGED <<arg_pattern, input_line, anchor_start, tokens, raised,
                   lines, k, result>>

\* main.py:209, parse_pattern returns
Parse ==
    /\ pc = "parse"
    /\ parse_pattern(pattern).err = ""
    /\ tokens' = parse_pattern(pattern).tokens
    /\ pc' = "parsed"
    /\ UNCHANGED <<arg_pattern, input_line, pattern, anchor_start,
                   anchor_end, raised, lines, k, result>>

\* main.py:209, parse_pattern raises: match_pattern ends without a value
ParseRaises ==
    /\ pc = "parse"
    /\ parse_pattern(pattern).err # ""
    /\ raised' = parse_pattern(pattern).err
    /\ pc' = "raised"
    /\ UNCHANGED <<arg_pattern, input_line, pattern, anchor_start,
                   anchor_end, tokens, lines, k, result>>

\* main.py:212-216
EmptyPattern ==
    /\ pc = "parsed"
    /\ Len(tokens) = 0
    /\ lines' = splitlines(input_line)
    /\ result' = Bool(EmptyPatternResult(anchor_start, anchor_end, input_line))
    /\ pc' = "done"
    /\ UNCHANGED <<arg_pattern, input_line, pattern, anchor_start,
                   anchor_end, tokens, raised, k>>

\* main.py:218-220
SplitInput ==
    /\ pc = "parsed"
    /\ Len(tokens) # 0
    /\ lines' = InputLines(input_line)
    /\ k' = 1
    /\ pc' = "lines"
    /\ UNCHANGED <<arg_pattern, input_line, pattern, anchor_start,
                   anchor_end, tokens, raised, result>>

\* main.py:242-244: one round of the loop over lines
MatchLine ==
    /\ pc = "lines"
    /\ k <= Len(lines)
    /\ IF match_in_line(tokens, anchor_start, anchor_end, lines[k])
       THEN result' = "True" /\ pc' = "done" /\ k' = k
       ELSE result' = result /\ pc' = pc /\ k' = k + 1
    /\ UNCHANGED <<arg_pattern, input_line, pattern, anchor_start,
                   anchor_end, tokens, raised, lines>>

\* main.py:246-253: no line matched
AfterLines ==
    /\ pc = "lines"
    /\ k > Len(lines)
    /\ result' = Bool(FullInputScan(tokens, anchor_start, anchor_end,
                                    input_line))
    /\ pc' = "done"
    /\ UNCHANGED <<arg_pattern, input_line, pattern, anchor_start,
                   anchor_end, tokens, raised, lines, k>>

Next ==
    \/ StripStart
    \/ StripEnd
    \/ Parse
    \/ ParseRaises
    \/ EmptyPattern
    \/ SplitInput
    \/ MatchLine
    \/ AfterLines

\* The state at the call match_pattern(input_line, pattern)
Call(patterns, inputs) ==
    /\ arg_pattern \in patterns
    /\ input_line \in inputs
    /\ pattern = arg_pattern
    /\ pc = "start"
    /\ anchor_start = FALSE
    /\ anchor_end = FALSE
    /\ tokens = <<>>
    /\ raised = ""
    /\ lines = <<>>
    /\ k = 0
    /\ result = "none"

-----------------------------------------------------------------------------
(* The calls the model makes: every pattern and input up to a length over a
   small alphabet, and the calls of the engine's documented examples. *)

PatChars == {"a", "^", "$", "\n", ".", "?", "+"}
InChars == {"a", "b", "\n"}

ExamplePatterns ==
    {<<"^", "a", "b", "c", "$">>,
     <<"c", ".", "t">>,
     <<"a", "+">>,
     <<"a", "+", "a", "b">>,
     <<"c", "o", "l", "o", "u", "?", "r">>,
     <<"(", "c", "a", "t", "|", "d", "o", "g", ")">>,
     <<"[", "^", "x", "y", "z", "]">>,
     <<"\\", "d">>,
     <<"\\", "w">>,
     <<"(", "c", "a", "t", ")", "+">>,
     <<"^", "(", "c", "a", "t", ")", "+", "$">>,
     <<"(", "c", "a", "t", "|", "d", "o", "g", ")", "+", "$">>,
     <<"[", "a", "b", "c">>,
     <<"(", "a", "b", "c">>}

ExampleInputs ==
    {<<"a", "b", "c">>,
     <<"x", "a", "b", "c">>,
     <<"a", "b", "c", "x">>,
     <<"c", "a", "t">>,
     <<"c", "\n", "t">>,
     <<"c", "\r", "t">>,
     <<"a", "a", "a">>,
     <<"a", "a", "a", "b">>,
     <<"c", "o", "l", "o", "r">>,
     <<"c", "o", "l", "o", "u", "r">>,
     <<"f", "i", "s", "h">>,
     <<"a", "p", "p", "l", "e">>,
     <<"5">>,
     <<"_">>,
     <<"c", "a", "t", "c", "a", "t", "c", "a", "t">>,
     <<"c", "a", "t", "d", "o", "g", "c", "a", "t">>,
     <<"a", "\r", "\n", "b">>}

Init == Call(Strs(PatChars, MaxPat) \cup ExamplePatterns,
             Strs(InChars, MaxLen) \cup ExampleInputs)

Spec == Init /\ [][Next]_vars

\* Calls whose patterns are made of the compiler's syntax characters.
ParseChars == {"a", "d", ".", "+", "?", "(", ")", "|", "[", "]", "\\"}

ParseInputs == {<<>>, <<"a">>}

InitParse == Call(Strs(ParseChars, MaxParsePat), ParseInputs)

SpecParse == InitParse /\ [][Next]_vars

\* Calls whose patterns are literal characters, bare or wrapped as ^...$,
\* and the two malformed patterns of the examples.
LitChars == {"a", "b"}
LitPatChars == {"a", "b", "\n"}

Wrapped(p) == <<"^">> \o p \o <<"$">>

LitPatterns ==
    Strs(LitPatChars, MaxLitPat)
    \cup {Wrapped(p) : p \in Strs(LitPatChars, MaxLitPat)}

MalformedExamples == {<<"[", "a", "b", "c">>, <<"(", "a", "b", "c">>}

InitLit == Call(LitPatterns \cup MalformedExamples, Strs(LitChars, MaxLitLen))

SpecLit == InitLit /\ [][Next]_vars

\* Calls whose patterns are made of quantifiers, groups and alternation.
QChars == {"a", ".", "(", ")", "|", "+"}
QInChars == {"a", "b"}

QExamplePatterns ==
    {<<"a", "+", "a", "b">>,
     <<"^", "(", "c", "a", "t", ")", "+", "$">>,
     <<"(", "c", "a", "t", "|", "d", "o", "g", ")", "+", "$">>,
     <<"(", ")", "+">>,
     <<"(", "a", "?", ")", "+">>,
     <<"(", "|", "a", ")", "+">>,
     <<"(", "a", "|", "a", "b", ")", "+", "b">>,
     <<"^", "(", "a", "|", "a", "a", ")", "+", "$">>,
     <<"(", "(", "a", ")", "+", ")", "+">>,
     <<"(", "a", "+", "|", ".", ")", "+", "a">>,
     <<"(", "a", "|", ".", "a", ")", "?", "a">>,
     <<"[", "^", "a", "]", "+">>,
     <<"a", "?", "a">>}

QExampleInputs ==
    {<<"a", "a", "a", "b">>,
     <<"c", "a", "t", "c", "a", "t", "c", "a", "t">>,
     <<"c", "a", "t", "d", "o", "g", "c", "a", "t">>,
     <<"a", "a", "a", "a">>,
     <<"a", "b", "a", "b">>}

InitQ == Call(Strs(QChars, MaxQPat) \cup QExamplePatterns,
              Strs(QInChars, MaxQLen) \cup QExampleInputs)

SpecQ == InitQ /\ [][Next]_vars

-----------------------------------------------------------------------------
(* Properties of match_pattern, checked under Spec. *)

NoAnchor == ~anchor_start /\ ~anchor_end

NoLineBreak(s) == \A j \in DOMAIN s : s[j] \notin LineBreaks

\* The four-case anchor rule for one line, over the end positions of
\* match_from.
FourCase(line) ==
    LET n == Len(line)
        ends(start) == match_from(tokens, 0, start, line)
    IN  CASE anchor_start /\ anchor_end -> n \in ends(0)
          [] anchor_start /\ ~anchor_end -> ends(0) # {}
          [] ~anchor_start /\ anchor_end -> \E st \in 0..n : n \in ends(st)
          [] OTHER -> \E st \in 0..n : ends(st) # {}

\* A line matches the pattern on its own: what match_pattern returns for the
\* input that is this line alone (C2Amended below).
LineMatches(line) ==
    IF tokens = <<>> THEN NoAnchor \/ line = <<>> ELSE FourCase(line)

SomeLineMatches ==
    \E j \in DOMAIN splitlines(input_line) :
        LineMatches(splitlines(input_line)[j])

\* The pattern, with no anchor, matches somewhere in the input taken whole,
\* line breaks included.
WholeInputMatches ==
    /\ NoAnchor
    /\ \E st \in 0..Len(input_line) :
          match_from(tokens, 0, st, input_line) # {}

MultiLine == Len(splitlines(input_line)) > 1

\* C1 as stated: on an input of more than one line, match_pattern is true iff
\* at least one line matches the pattern on its own.
C1LinesOnly ==
    (pc = "done" /\ MultiLine) => (result = "True" <=> SomeLineMatches)

\* C1, amended: on an input of more than one line, match_pattern is true iff
\* at least one line matches the pattern on its own, or the pattern has no
\* anchor and matches somewhere in the whole input, line breaks included;
\* with an anchor it is true iff at least one line matches on its own.
C1Amended ==
    (pc = "done" /\ MultiLine) =>
        /\ result = "True" <=> (SomeLineMatches \/ WholeInputMatches)
        /\ ~NoAnchor => (result = "True" <=> SomeLineMatches)

\* A match that spans a line break: no line matches, the call returns True.
C1Witness ==
    /\ pc = "done"
    /\ MultiLine
    /\ tokens # <<>>
    /\ ~SomeLineMatches
    /\ result = "True"

\* C2 as stated: on an input without line breaks match_pattern follows the
\* four-case anchor rule, for every compiled sequence, the empty one included.
C2FourCase ==
    (pc = "done" /\ NoLineBreak(input_line)) =>
        result = Bool(FourCase(input_line))

\* C2, amended: on an input without line breaks match_pattern follows the
\* four-case anchor rule when the compiled sequence is not empty; when it is
\* empty, match_pattern is true iff there is no anchor or the input is empty.
C2Amended ==
    (pc = "done" /\ NoLineBreak(input_line)) =>
        IF tokens # <<>>
        THEN result = Bool(FourCase(input_line))
        ELSE result = Bool(NoAnchor \/ input_line = <<>>)

\* A match under the end anchor alone that starts after position 0.
C2Witness ==
    /\ pc = "done"
    /\ NoLineBreak(input_line)
    /\ tokens # <<>>
    /\ ~anchor_start /\ anchor_end
    /\ result = "True"
    /\ Len(input_line) \notin match_from(tokens, 0, 0, input_line)

\* C4: when the pattern is empty after the anchors are stripped, with an
\* anchor match_pattern is true iff the input is empty or one of its lines
\* is empty, and with no anchor it is true for every input.
C4EmptyPattern ==
    (pc = "done" /\ pattern = <<>>) =>
        IF anchor_start \/ anchor_end
        THEN result = "True" <=>
                \/ input_line = <<>>
                \/ \E j \in DOMAIN splitlines(input_line) :
                      splitlines(input_line)[j] = <<>>
        ELSE result = "True"

\* An anchored empty pattern on a non-empty input that has an empty line.
C4Witness ==
    /\ pc = "done"
    /\ pattern = <<>>
    /\ anchor_start \/ anchor_end
    /\ input_line # <<>>
    /\ result = "True"

-----------------------------------------------------------------------------
(* Literal patterns, checked under SpecLit. *)

MetaChars == {"\\", "[", "]", ".", "(", ")", "|", "+", "?", "^", "$"}

LiteralOnly(p) == \A j \in DOMAIN p : p[j] \notin MetaChars

\* p occurs in s as a contiguous substring
Occurs(p, s) ==
    \E st \in 0..(Len(s) - Len(p)) : \A j \in 1..Len(p) : s[st + j] = p[j]

IsWrapped(p) == Len(p) >= 2 /\ p[1] = "^" /\ p[Len(p)] = "$"

Unwrapped(p) == Slice(p, 1, Len(p) - 1)

\* C3: for a pattern of literal characters and an input without line breaks,
\* match_pattern is true iff the pattern occurs in the input as a contiguous
\* substring; for the pattern wrapped as ^pattern$ it is true iff the input
\* equals the pattern.
C3Literal ==
    (pc = "done" /\ NoLineBreak(input_line)) =>
        /\ LiteralOnly(arg_pattern) =>
              result = Bool(Occurs(arg_pattern, input_line))
        /\ (IsWrapped(arg_pattern) /\ LiteralOnly(Unwrapped(arg_pattern))) =>
              result = Bool(input_line = Unwrapped(arg_pattern))

\* The pattern occurs in the input, and not at its start.
C3Witness ==
    /\ pc = "done"
    /\ LiteralOnly(arg_pattern)
    /\ Len(arg_pattern) >= 2
    /\ Len(input_line) > Len(arg_pattern)
    /\ ~Occurs(arg_pattern, SubSeq(input_line, 1, Len(arg_pattern)))
    /\ result = "True"

-----------------------------------------------------------------------------
(* Properties of parse_pattern, checked under SpecParse. *)

Compiled == pc \in {"parsed", "lines", "done"}

\* One pass over the pattern, left to right, that builds nothing: it skips
\* an escaped character, skips a class up to its "]", counts the groups that
\* are open, and says which error, if any, the pattern has.
RECURSIVE ScanErrors(_, _, _)
ScanErrors(p, i, open) ==
    IF i >= Len(p) THEN (IF open > 0 THEN UnterminatedGroup ELSE "")
    ELSE IF p[i + 1] = "\\" THEN ScanErrors(p, i + 2, open)
    ELSE IF p[i + 1] = "["
         THEN IF \E j \in (i + 2)..Len(p) : p[j] = "]"
              THEN ScanErrors(p, (CHOOSE j \in (i + 2)..Len(p) :
                                    /\ p[j] = "]"
                                    /\ \A h \in (i + 2)..(j - 1) : p[h] # "]"),
                              open)
              ELSE UnterminatedClass
    ELSE IF p[i + 1] = "(" THEN ScanErrors(p, i + 1, open + 1)
    ELSE IF p[i + 1] = ")" /\ open > 0 THEN ScanErrors(p, i + 1, open - 1)
    ELSE ScanErrors(p, i + 1, open)

\* C5: parse_pattern fails with the unterminated-class error exactly when
\* parsing reaches a "[" atom with no "]" after it, with the unterminated-
\* group error exactly when the end of the pattern is reached with a "("
\* still open, and returns tokens for every other pattern; when it fails,
\* match_pattern produces no boolean result.
C5ParseErrors ==
    /\ pc \notin {"start", "strip_end", "parse"} =>
          /\ raised = ScanErrors(pattern, 0, 0)
          /\ (raised # "") <=> (pc = "raised")
    /\ pc \in {"start", "strip_end", "parse", "raised"} => result = "none"
    /\ pc = "done" => result \in {"True", "False"}

\* The group's ")" is inside a character class: the group is unterminated.
C5Witness ==
    /\ pc = "raised"
    /\ raised = UnterminatedGroup
    /\ \E a, b, c, d \in DOMAIN pattern :
          /\ a < b /\ b < c /\ c < d
          /\ pattern[a] = "(" /\ pattern[b] = "["
          /\ pattern[c] = ")" /\ pattern[d] = "]"
    /\ result = "none"

\* What the pattern says about quantifiers, read left to right with one
\* atom of look-behind: an event per atom that is not a group, and an event
\* per quantified group at its ")".  A "+" or "?" quantifies the atom that
\* ends right before it when that atom has no quantifier yet; otherwise it
\* is itself a literal atom.  pending is the atom that ends right before i
\* and has no quantifier yet; its kind is "" when there is none.
Event(kind, ch, quant) == [kind |-> kind, ch |-> ch, quant |-> quant]

NoAtom == Event("", "", "")

Flush(pending, out) ==
    IF pending.kind \in {"", "group"} THEN out ELSE Append(out, pending)

RECURSIVE QuantScan(_, _, _, _, _)
QuantScan(p, i, open, pending, out) ==
    IF i >= Len(p) THEN Flush(pending, out)
    ELSE
    LET c == p[i + 1]
        rest == Flush(pending, out)
    IN
    IF c \in {"+", "?"}
    THEN IF pending.kind # ""
         THEN QuantScan(p, i + 1, open, NoAtom,
                        Append(out, [pending EXCEPT !.quant = c]))
         ELSE QuantScan(p, i + 1, open, Event("literal", c, ""), out)
    ELSE IF c = "|" THEN QuantScan(p, i + 1, open, NoAtom, rest)
    ELSE IF c = "(" THEN QuantScan(p, i + 1, open + 1, NoAtom, rest)
    ELSE IF c = ")" /\ open > 0
    THEN QuantScan(p, i + 1, open - 1, Event("group", "", ""), rest)
    ELSE IF c = "\\"
    THEN IF i + 2 > Len(p)
         THEN QuantScan(p, i + 1, open, Event("literal", c, ""), rest)
         ELSE QuantScan(p, i + 2, open,
                        IF p[i + 2] = "d" THEN Event("digit", "", "")
                        ELSE IF p[i + 2] = "w" THEN Event("word", "", "")
                        ELSE Event("literal", p[i + 2], ""),
                        rest)
    ELSE IF c = "["
    THEN IF \E j \in (i + 2)..Len(p) : p[j] = "]"
         THEN QuantScan(p, (CHOOSE j \in (i + 2)..Len(p) :
                               /\ p[j] = "]"
                               /\ \A h \in (i + 2)..(j - 1) : p[h] # "]"),
                        open, Event("class", "", ""), rest)
         ELSE rest
    ELSE IF c = "." THEN QuantScan(p, i + 1, open, Event("dot", "", ""), rest)
    ELSE QuantScan(p, i + 1, open, Event("literal", c, ""), rest)

\* The same events read off the token tree, in the order of the pattern.
RECURSIVE TokenEvents(_)
RECURSIVE AltsEvents(_)
TokenEvents(toks) ==
    IF toks = <<>> THEN <<>>
    ELSE LET t == Head(toks)
         IN  (IF t.ttype = "group"
              THEN AltsEvents(t.alts)
                   \o (IF t.quant # "" THEN <<Event("group", "", t.quant)>>
                       ELSE <<>>)
              ELSE <<Event(t.ttype, t.ch, t.quant)>>)
             \o TokenEvents(Tail(toks))

AltsEvents(alternatives) ==
    IF alternatives = <<>> THEN <<>>
    ELSE TokenEvents(Head(alternatives)) \o AltsEvents(Tail(alternatives))

\* C6: a quantifier character attaches only to the single atom right before
\* it and a token carries at most one quantifier: a "+" or "?" that follows
\* a quantified atom, or that starts a sequence, is a new Literal token.
C6Quantifiers ==
    Compiled =>
        /\ TokenEvents(tokens) = QuantScan(pattern, 0, 0, NoAtom, <<>>)
        /\ \A j \in DOMAIN TokenEvents(tokens) :
              TokenEvents(tokens)[j].quant \in {"", "+", "?"}

\* A quantified token followed by the literal of a quantifier character,
\* in a pattern without escapes.
C6Witness ==
    /\ Compiled
    /\ \A j \in DOMAIN pattern : pattern[j] # "\\"
    /\ \E j \in 1..(Len(tokens) - 1) :
          /\ tokens[j].quant # ""
          /\ tokens[j + 1].ttype = "literal"
          /\ tokens[j + 1].ch \in {"+", "?"}

-----------------------------------------------------------------------------
(* Properties of match_from, checked under SpecQ. *)

\* Every token sequence of the tree: the top-level one and, recursively,
\* each alternative of each group.
RECURSIVE AllSeqs(_)
AllSeqs(toks) ==
    {toks} \cup UNION {UNION {AllSeqs(toks[j].alts[a]) :
                                 a \in DOMAIN toks[j].alts} :
                          j \in DOMAIN toks}

PredAt(tok, line, pos) ==
    pos < Len(line) /\ token_matches_char(tok, line[pos + 1])

\* The length of the longest run of characters from pos that satisfy tok
MaxRun(tok, line, pos) ==
    CHOOSE m \in 0..(Len(line) - pos) :
        /\ \A j \in 0..(m - 1) : PredAt(tok, line, pos + j)
        /\ ~PredAt(tok, line, pos + m)

\* C7: for a non-group token with quantifier "+" at index i, match_from is
\* empty when the token's predicate fails at pos, and otherwise the union,
\* over every run length from 1 to the maximal one, of match_from of the
\* rest at pos + length; a+ab matches aaab.
C7PlusRuns ==
    pc = "done" =>
        /\ \A s \in AllSeqs(tokens) : \A i \in 0..(Len(s) - 1) :
           \A pos \in 0..Len(input_line) :
              (s[i + 1].ttype # "group" /\ s[i + 1].quant = "+") =>
                 match_from(s, i, pos, input_line) =
                    IF ~PredAt(s[i + 1], input_line, pos) THEN {}
                    ELSE UNION {match_from(s, i + 1, pos + n, input_line) :
                                   n \in 1..MaxRun(s[i + 1], input_line, pos)}
        /\ (arg_pattern = <<"a", "+", "a", "b">>
            /\ input_line = <<"a", "a", "a", "b">>) => result = "True"

\* The longest run of the first token leaves nothing for the rest to match,
\* a shorter one does.
C7Witness ==
    /\ pc = "done"
    /\ result = "True"
    /\ Len(tokens) > 1
    /\ tokens[1].ttype # "group" /\ tokens[1].quant = "+"
    /\ match_from(tokens, 0, 0, input_line) # {}
    /\ match_from(tokens, 1, MaxRun(tokens[1], input_line, 0), input_line) = {}

\* The positions reachable from pos by one or more repetitions of the group,
\* each repetition one of its alternatives: the least set that holds the ends
\* of one occurrence at pos and of one occurrence at each of its members.
Repetitions(alternatives, pos, line) ==
    LET P == 0..Len(line)
        once == [p \in P |-> OneOccurrence(alternatives, p, line)]
        IsClosed(S) == once[pos] \subseteq S /\ \A p \in S : once[p] \subseteq S
    IN  {p \in P : \A S \in SUBSET P : IsClosed(S) => p \in S}

\* C8: for a group token with quantifier "+" at index i, match_from is the
\* union of match_from of the rest over exactly the positions reachable by
\* one or more repetitions of the group, and is empty when no alternative
\* matches once at pos; (cat)+ matches catcatcat under both anchors and
\* (cat|dog)+$ matches catdogcat.
C8GroupClosure ==
    pc = "done" =>
        /\ \A s \in AllSeqs(tokens) : \A i \in 0..(Len(s) - 1) :
           \A pos \in 0..Len(input_line) :
              (s[i + 1].ttype = "group" /\ s[i + 1].quant = "+") =>
                 /\ match_from(s, i, pos, input_line) =
                       UNION {match_from(s, i + 1, p, input_line) :
                                 p \in Repetitions(s[i + 1].alts, pos, input_line)}
                 /\ OneOccurrence(s[i + 1].alts, pos, input_line) = {} =>
                       match_from(s, i, pos, input_line) = {}
        /\ (arg_pattern = <<"^", "(", "c", "a", "t", ")", "+", "$">>
            /\ input_line = <<"c", "a", "t", "c", "a", "t", "c", "a", "t">>)
              => result = "True"
        /\ (arg_pattern = <<"(", "c", "a", "t", "|", "d", "o", "g", ")", "+", "$">>
            /\ input_line = <<"c", "a", "t", "d", "o", "g", "c", "a", "t">>)
              => result = "True"

\* The whole line is matched by repetitions of the group, and not by one.
C8Witness ==
    /\ pc = "done"
    /\ result = "True"
    /\ anchor_start /\ anchor_end
    /\ Len(tokens) = 1
    /\ tokens[1].ttype = "group" /\ tokens[1].quant = "+"
    /\ Len(tokens[1].alts) > 1
    /\ Len(input_line) \notin OneOccurrence(tokens[1].alts, 0, input_line)

\* C9: the frontier loop of a "+"-quantified group ends, after at most
\* len(line) + 1 rounds, also when an alternative of the group matches the
\* empty string.
C9ClosureEnds ==
    pc = "done" =>
        \A s \in AllSeqs(tokens) : \A i \in 0..(Len(s) - 1) :
        \A pos \in 0..Len(input_line) :
           (s[i + 1].ttype = "group" /\ s[i + 1].quant = "+") =>
              /\ Closure(s[i + 1].alts, pos, input_line).frontier = {}
              /\ Closure(s[i + 1].alts, pos, input_line).rounds
                    <= Len(input_line) + 1

\* A "+"-quantified group one of whose occurrences is empty, after a
\* position the group reaches by a non-empty occurrence.
C9Witness ==
    /\ pc = "done"
    /\ Len(tokens) = 1
    /\ tokens[1].ttype = "group" /\ tokens[1].quant = "+"
    /\ 0 \in OneOccurrence(tokens[1].alts, 0, input_line)
    /\ Len(input_line) \in Closure(tokens[1].alts, 0, input_line).reachable
    /\ Closure(tokens[1].alts, 0, input_line).rounds >= 2

\* C10: every end position e of match_from(tokens, i, pos, line), with
\* 0 <= pos <= n, has pos <= e <= n, so that no call of match_from and no
\* step of the group closure gets a position outside 0..n.
C10EndsInLine ==
    pc = "done" =>
        \A s \in AllSeqs(tokens) : \A pos \in 0..Len(input_line) :
           /\ \A i \in 0..Len(s) : \A e \in match_from(s, i, pos, input_line) :
                 pos <= e /\ e <= Len(input_line)
           /\ \A i \in 0..(Len(s) - 1) :
                 /\ s[i + 1].ttype # "group" =>
                       RunEnd(s[i + 1], input_line, pos) <= Len(input_line)
                 /\ s[i + 1].ttype = "group" =>
                       \A e \in Closure(s[i + 1].alts, pos, input_line).reachable :
                          pos <= e /\ e <= Len(input_line)

\* The match ends at the end of the line, where a token that accepts any
\* character is tried and refused.
C10Witness ==
    /\ pc = "done"
    /\ Len(input_line) > 0
    /\ Len(input_line) \in match_from(tokens, 0, 0, input_line)
    /\ \E i \in 0..(Len(tokens) - 1) :
          /\ tokens[i + 1].ttype = "dot"
          /\ match_from(tokens, i, Len(input_line), input_line) = {}

=============================================================================
